---- MODULE Spec2Model ----
(***************************************************************************)
(* Seat reservation lifecycle of SpareRoomReservationSystem (core/views.py, *)
(* core/admin.py, core/management/commands/cleanup.py).                     *)
(*                                                                          *)
(* The Reservation table is the function db from row id to row.  Every     *)
(* request handler is a small-step function over (table, local state): one *)
(* step per SQL statement that can race.  The sequential specification     *)
(* Spec runs each handler to completion as one action; the concurrent      *)
(* specification SpecConc interleaves the same steps of two requests over  *)
(* a read-committed table with row locks held until commit.                *)
(***************************************************************************)
EXTENDS Integers, Sequences, FiniteSets, TLC

VARIABLES db, now, last, procs, form_saves, access

vars == <<db, now, last, procs, form_saves, access>>

(* ------------------------------ bounds -------------------------------- *)
\* rows the Reservation table may hold
MaxRes == 2
\* seats in one seats_list
MaxSeats == 2
\* saves of the administrator's change form
MaxFormSaves == 1
\* runs of send_access_codes
MaxRuns == 2
\* rows the Reservation table may hold where the limit of pending batches is at stake
MaxBatchRows == 4
\* rows the Reservation table may hold where a link of several rows meets other requests
MaxLinkRows == 3

(* ------------------------- program constants -------------------------- *)
RESERVATION_BOOKING_WINDOW_MINUTES == 30
RESERVATION_MAX_DAYS_AHEAD == 2
RESERVATION_MAX_DAYS_AHEAD_MANAGER == 7
MAX_PENDING_BATCHES == 3
\* signer.unsign(token, max_age=86400), in seconds
TOKEN_MAX_AGE == 86400

(* ------------------------------ domains ------------------------------- *)
Students == {"u1", "m1"}
\* Student.role
role(s) == IF s = "m1" THEN "manager" ELSE "user"
\* the students the administrator can book for: those above and one on the blacklist
Targets == Students \cup {"x1"}
\* Student.status
student_status(s) == IF s = "x1" THEN "blacklist" ELSE "normal"
Classroom == "c1"
\* seats as (seat_row, seat_col), 0-based
Seats == {<<0, 0>>, <<0, 1>>}
Dates == {0, 1}
\* the dates students and the administrator book for
SubmitDates == {0}
\* settings.TIME_SLOTS: slot id -> start of its label as (hour, minute)
TIME_SLOTS == (1 :> <<8, 0>>)
Slots == DOMAIN TIME_SLOTS
Statuses == {"pending", "approved", "rejected", "expired", "cancelled"}

(* ------------------------------- time --------------------------------- *)
\* datetime.datetime.combine(date, time(h, m)) in minutes since day 0, 00:00
combine(date, h, m) == (date * 24 + h) * 60 + m
\* datetime.date.today() of the clock value t
today(t) == t \div combine(1, 0, 0)
slot_start(date, slot) == combine(date, TIME_SLOTS[slot][1], TIME_SLOTS[slot][2])
\* slot_start - timedelta(minutes=RESERVATION_BOOKING_WINDOW_MINUTES)
booking_deadline(date, slot) == slot_start(date, slot) - RESERVATION_BOOKING_WINDOW_MINUTES
\* the instants the clock visits: the minute before the first deadline, and each deadline
Times == {booking_deadline(0, 1) - 1} \cup {booking_deadline(d, s) : d \in Dates, s \in Slots}
\* the instants of day 0
Day0 == {t \in Times : today(t) = 0}

(* ------------------------------ helpers ------------------------------- *)
Empty == [i \in {} |-> 0]
Max(S) == CHOOSE x \in S : \A y \in S : y <= x
Min(S) == CHOOSE x \in S : \A y \in S : x <= y
RECURSIVE SetToSeq(_)
\* a queryset's rows in id order
SetToSeq(S) == IF S = {} THEN <<>> ELSE <<Min(S)>> \o SetToSeq(S \ {Min(S)})
SeqsUpTo(S, n) == UNION {[1..k -> S] : k \in 1..n}
\* a transaction's view: the committed table under its own uncommitted writes
Overlay(d, w) == [i \in DOMAIN d \cup DOMAIN w |-> IF i \in DOMAIN w THEN w[i] ELSE d[i]]
\* the id the next INSERT gets
new_id(d, w, others) == 1 + Max({0} \cup DOMAIN d \cup DOMAIN w \cup others)
\* variant: one batch id for every request
uuid4_constant(d, inuse) == 1

\* uuid.uuid4(): a batch id no row carries
uuid4(d, inuse) == 1 + Max({0} \cup {d[i].batch : i \in DOMAIN d} \cup inuse)

Reservation(b, s, seat, date, slot, st, t, adm, org) ==
  [batch |-> b, student |-> s, classroom |-> Classroom, seat |-> seat, date |-> date,
   slot |-> slot, status |-> st, created |-> t, admin |-> adm, origin |-> org]

\* filter(classroom=.., seat_row=.., seat_col=.., date=.., time_slot=.., status=..)
seat_rows(d, c, seat, date, slot, st) ==
  {i \in DOMAIN d : /\ d[i].classroom = c /\ d[i].seat = seat /\ d[i].date = date
                    /\ d[i].slot = slot /\ d[i].status = st}

(* ------------------------------- submit ------------------------------- *)
submit_begin(s, date, slot, seats, t, b) ==
  [op |-> "submit", pc |-> "check", student |-> s, date |-> date, slot |-> slot,
   seats |-> seats, now |-> t, batch |-> b, i |-> 1, wr |-> Empty, res |-> "none"]

\* variant: the user's limit for every role
max_ahead_user(s) == RESERVATION_MAX_DAYS_AHEAD

max_ahead(s) ==
  IF role(s) = "manager" THEN RESERVATION_MAX_DAYS_AHEAD_MANAGER ELSE RESERVATION_MAX_DAYS_AHEAD

\* variant: the deadline compared with >
past_deadline_strict(t, date, slot) == t > booking_deadline(date, slot)

\* now_dt >= booking_deadline
past_deadline(t, date, slot) == t >= booking_deadline(date, slot)

current_pending_batches(d, s, t) ==
  Cardinality({d[i].batch : i \in {j \in DOMAIN d : /\ d[j].student = s
                                                     /\ d[j].status = "pending"
                                                     /\ d[j].date >= today(t)}})

\* variant: only approved reservations count as a booking
has_booking_approved(d, s, date, slot) ==
  \E i \in DOMAIN d : /\ d[i].student = s /\ d[i].date = date /\ d[i].slot = slot
                      /\ d[i].status = "approved"

has_booking(d, s, date, slot) ==
  \E i \in DOMAIN d : /\ d[i].student = s /\ d[i].date = date /\ d[i].slot = slot
                      /\ d[i].status \in {"approved", "pending"}

\* the checks before the transaction; the first that fails answers
submit_check(d, L) ==
  LET fail(msg) == [L EXCEPT !.pc = "done", !.res = msg] IN
  IF L.date < today(L.now) THEN fail("date_past")
  ELSE IF L.date > today(L.now) + max_ahead(L.student) THEN fail("date_too_far")
  ELSE IF past_deadline(L.now, L.date, L.slot) THEN fail("deadline")
  ELSE IF Len(L.seats) = 0 THEN fail("no_seats")
  ELSE IF current_pending_batches(d, L.student, L.now) >= MAX_PENDING_BATCHES
       THEN fail("too_many_pending")
  ELSE IF role(L.student) = "user" /\ Len(L.seats) > 1 THEN fail("user_one_seat")
  ELSE IF role(L.student) = "user" /\ has_booking(d, L.student, L.date, L.slot)
       THEN fail("has_booking")
  ELSE [L EXCEPT !.pc = "seat"]

\* variant: the ValueError swallowed, the rows inserted so far committed
submit_rollback_keeps(L) == [L EXCEPT !.pc = "commit"]

\* the transaction's rollback when ValueError leaves the atomic block
submit_rollback(L) == [L EXCEPT !.pc = "done", !.wr = Empty, !.res = "locked"]

\* variant: the new request rejects the pending requests of other students for the seat
submit_seat_preempts(d, L, others) ==
  LET seat == L.seats[L.i]
      v == Overlay(d, L.wr)
      is_hard_locked == seat_rows(v, Classroom, seat, L.date, L.slot, "approved") # {}
      rivals == {i \in seat_rows(v, Classroom, seat, L.date, L.slot, "pending") :
                   v[i].student # L.student}
      id == new_id(d, L.wr, others)
      res == Reservation(L.batch, L.student, seat, L.date, L.slot, "pending", L.now, FALSE, "submit")
  IN IF is_hard_locked THEN submit_rollback(L)
     ELSE [L EXCEPT !.wr = Overlay(Overlay(L.wr, [i \in rivals |-> [v[i] EXCEPT !.status = "rejected"]]),
                                   (id :> res)),
                    !.i = L.i + 1,
                    !.pc = IF L.i = Len(L.seats) THEN "commit" ELSE "seat"]

\* variant: a cancelled reservation locks its seat like an approved one
submit_seat_cancelled_locks(d, L, others) ==
  LET seat == L.seats[L.i]
      v == Overlay(d, L.wr)
      is_hard_locked == \/ seat_rows(v, Classroom, seat, L.date, L.slot, "approved") # {}
                        \/ seat_rows(v, Classroom, seat, L.date, L.slot, "cancelled") # {}
      id == new_id(d, L.wr, others)
      res == Reservation(L.batch, L.student, seat, L.date, L.slot, "pending", L.now, FALSE, "submit")
  IN IF is_hard_locked THEN submit_rollback(L)
     ELSE [L EXCEPT !.wr = Overlay(L.wr, (id :> res)),
                    !.i = L.i + 1,
                    !.pc = IF L.i = Len(L.seats) THEN "commit" ELSE "seat"]

\* one turn of the loop over seats_list, inside transaction.atomic()
submit_seat(d, L, others) ==
  LET seat == L.seats[L.i]
      is_hard_locked == seat_rows(Overlay(d, L.wr), Classroom, seat, L.date, L.slot, "approved") # {}
      id == new_id(d, L.wr, others)
      res == Reservation(L.batch, L.student, seat, L.date, L.slot, "pending", L.now, FALSE, "submit")
  IN IF is_hard_locked THEN submit_rollback(L)
     ELSE [L EXCEPT !.wr = Overlay(L.wr, (id :> res)),
                    !.i = L.i + 1,
                    !.pc = IF L.i = Len(L.seats) THEN "commit" ELSE "seat"]

submit_step(d, L, others) ==
  CASE L.pc = "check" -> [db |-> d, L |-> submit_check(d, L)]
    [] L.pc = "seat" -> [db |-> d, L |-> submit_seat(d, L, others)]
    [] L.pc = "commit" -> [db |-> Overlay(d, L.wr),
                           L |-> [L EXCEPT !.pc = "done", !.wr = Empty, !.res = "ok"]]

(* ---------------------------- admin_action ---------------------------- *)
admin_action_begin(ids, action, t) ==
  [op |-> "admin_action", pc |-> "read", ids |-> ids, action |-> action, now |-> t,
   target_res |-> <<>>, valid_res |-> <<>>, i |-> 1, taken |-> FALSE,
   cancelled_count |-> 0, expired_count |-> 0, success_count |-> 0,
   auto_reject_count |-> 0, wr |-> Empty, res |-> "none"]

\* variant: every row of the link is read, whatever its status
admin_action_read_any(d, L) ==
  LET found == L.ids \cap DOMAIN d
  IN IF found = {}
     THEN [L EXCEPT !.pc = "done", !.res = "skipped"]
     ELSE [L EXCEPT !.pc = "expire",
                    !.target_res = [k \in 1..Cardinality(found) |->
                                      [id |-> SetToSeq(found)[k], row |-> d[SetToSeq(found)[k]]]]]

\* the rows of the link that are still pending, read into memory
admin_action_read(d, L) ==
  LET found == L.ids \cap DOMAIN d
      pend == {i \in found : d[i].status = "pending"}
      canc == {i \in found : d[i].status = "cancelled"}
      expd == {i \in found : d[i].status = "expired"}
  IN IF pend = {}
     THEN [L EXCEPT !.pc = "done",
                    !.res = IF canc # {} THEN "skipped_cancelled"
                            ELSE IF expd # {} THEN "skipped_expired" ELSE "skipped"]
     ELSE [L EXCEPT !.pc = "expire", !.cancelled_count = Cardinality(canc),
                    !.target_res = [k \in 1..Cardinality(pend) |->
                                      [id |-> SetToSeq(pend)[k], row |-> d[SetToSeq(pend)[k]]]]]

admin_action_response(L) ==
  [success |-> L.success_count, auto_reject |-> L.auto_reject_count,
   expired |-> L.expired_count, cancelled |-> L.cancelled_count]

\* the id the next statement writes by primary key (res.save()), if any
admin_action_saves(L) ==
  CASE L.pc = "expire" ->
         IF past_deadline(L.now, L.target_res[L.i].row.date, L.target_res[L.i].row.slot)
         THEN {L.target_res[L.i].id} ELSE {}
    [] L.pc = "save" -> {L.valid_res[L.i].id}
    [] OTHER -> {}

\* variant: the deadline is enforced for the approve link only
admin_action_expire_approve_only(d, L) ==
  LET e == L.target_res[L.i]
      is_expired == L.action = "approve" /\ past_deadline(L.now, e.row.date, e.row.slot)
      valid == IF is_expired THEN L.valid_res ELSE Append(L.valid_res, e)
      cnt == IF is_expired THEN L.expired_count + 1 ELSE L.expired_count
      d2 == IF is_expired THEN Overlay(d, (e.id :> [e.row EXCEPT !.status = "expired"])) ELSE d
      more == L.i < Len(L.target_res)
      L2 == [L EXCEPT !.valid_res = valid, !.expired_count = cnt]
  IN [db |-> d2,
      L |-> IF more THEN [L2 EXCEPT !.i = L.i + 1]
            ELSE IF valid = <<>>
                 THEN [L2 EXCEPT !.pc = "done", !.res = "skipped_now_expired"]
                 ELSE [L2 EXCEPT !.i = 1, !.pc = IF L.action = "approve" THEN "taken" ELSE "save"]]

\* one turn of the deadline loop, outside any transaction: res.save() autocommits
admin_action_expire(d, L) ==
  LET e == L.target_res[L.i]
      is_expired == past_deadline(L.now, e.row.date, e.row.slot)
      valid == IF is_expired THEN L.valid_res ELSE Append(L.valid_res, e)
      cnt == IF is_expired THEN L.expired_count + 1 ELSE L.expired_count
      d2 == IF is_expired THEN Overlay(d, (e.id :> [e.row EXCEPT !.status = "expired"])) ELSE d
      more == L.i < Len(L.target_res)
      L2 == [L EXCEPT !.valid_res = valid, !.expired_count = cnt]
  IN [db |-> d2,
      L |-> IF more THEN [L2 EXCEPT !.i = L.i + 1]
            ELSE IF valid = <<>>
                 THEN [L2 EXCEPT !.pc = "done",
                                 !.res = IF cnt > 0 THEN "skipped_now_expired"
                                         ELSE IF L.cancelled_count > 0 THEN "skipped_cancelled"
                                         ELSE "skipped"]
                 ELSE [L2 EXCEPT !.i = 1, !.pc = IF L.action = "approve" THEN "taken" ELSE "save"]]

\* variant: is_taken never finds an approved row
admin_action_taken_never(d, L) == [L EXCEPT !.pc = "save", !.taken = FALSE]

\* A. is_taken: the SELECT before the write
admin_action_taken(d, L) ==
  LET r == L.valid_res[L.i].row
  IN [L EXCEPT !.pc = "save",
               !.taken = seat_rows(Overlay(d, L.wr), r.classroom, r.seat, r.date, r.slot, "approved") # {}]

admin_action_next(L) ==
  IF L.i < Len(L.valid_res)
  THEN [L EXCEPT !.i = L.i + 1, !.pc = IF L.action = "approve" THEN "taken" ELSE "save"]
  ELSE [L EXCEPT !.pc = "commit"]

\* variant: a taken seat ends the loop over the link's rows
admin_action_save_stops(d, L) ==
  LET e == L.valid_res[L.i]
      put(st) == Overlay(L.wr, (e.id :> [e.row EXCEPT !.status = st]))
  IN IF L.action = "approve"
     THEN IF L.taken
          THEN [L EXCEPT !.wr = put("rejected"), !.pc = "commit"]
          ELSE [L EXCEPT !.wr = put("approved"), !.success_count = L.success_count + 1,
                         !.pc = "competitors"]
     ELSE admin_action_next([L EXCEPT !.wr = put("rejected"),
                                      !.success_count = L.success_count + 1])

\* B. res.status = ...; res.save(): the whole in-memory row is written back
admin_action_save(d, L) ==
  LET e == L.valid_res[L.i]
      put(st) == Overlay(L.wr, (e.id :> [e.row EXCEPT !.status = st]))
  IN IF L.action = "approve"
     THEN IF L.taken
          THEN admin_action_next([L EXCEPT !.wr = put("rejected")])
          ELSE [L EXCEPT !.wr = put("approved"), !.success_count = L.success_count + 1,
                         !.pc = "competitors"]
     ELSE admin_action_next([L EXCEPT !.wr = put("rejected"),
                                      !.success_count = L.success_count + 1])

\* variant: no competitor is selected
competitors_none(d, L) == {}

\* C. the pending competitors of the row just approved
competitors(d, L) ==
  LET e == L.valid_res[L.i]
  IN seat_rows(Overlay(d, L.wr), e.row.classroom, e.row.seat, e.row.date, e.row.slot, "pending")
       \ {e.id}

\* competitors.update(status='rejected')
admin_action_competitors(d, L) ==
  LET v == Overlay(d, L.wr)
      c == competitors(d, L)
  IN admin_action_next(
       [L EXCEPT !.wr = Overlay(L.wr, [i \in c |-> [v[i] EXCEPT !.status = "rejected"]]),
                 !.auto_reject_count = L.auto_reject_count + Cardinality(c)])

admin_action_step(d, L) ==
  CASE L.pc = "read" -> [db |-> d, L |-> admin_action_read(d, L)]
    [] L.pc = "expire" -> admin_action_expire(d, L)
    [] L.pc = "taken" -> [db |-> d, L |-> admin_action_taken(d, L)]
    [] L.pc = "save" -> [db |-> d, L |-> admin_action_save(d, L)]
    [] L.pc = "competitors" -> [db |-> d, L |-> admin_action_competitors(d, L)]
    [] L.pc = "commit" -> [db |-> Overlay(d, L.wr),
                           L |-> [L EXCEPT !.pc = "done", !.wr = Empty, !.res = "success"]]

(* ------------------------- admin_booking_view ------------------------- *)
admin_booking_begin(s, date, slot, seats, t, b) ==
  [op |-> "admin_booking", pc |-> "check", student |-> s, date |-> date, slot |-> slot,
   seats |-> seats, now |-> t, batch |-> b, i |-> 1, created_count |-> 0,
   wr |-> Empty, res |-> "none"]

\* variant: the blacklist not consulted
admin_booking_check_any_student(L) ==
  IF past_deadline(L.now, L.date, L.slot) THEN [L EXCEPT !.pc = "done", !.res = "deadline"]
  ELSE [L EXCEPT !.pc = "taken"]

\* can_book and the blacklist check, before the transaction
admin_booking_check(L) ==
  IF past_deadline(L.now, L.date, L.slot) THEN [L EXCEPT !.pc = "done", !.res = "deadline"]
  ELSE IF student_status(L.student) = "blacklist" THEN [L EXCEPT !.pc = "done", !.res = "blacklist"]
  ELSE [L EXCEPT !.pc = "taken"]

admin_booking_next(L) ==
  IF L.i < Len(L.seats) THEN [L EXCEPT !.i = L.i + 1, !.pc = "taken"]
  ELSE [L EXCEPT !.pc = "commit"]

\* variant: a seat with an approved row ends the request and undoes its writes
admin_booking_taken_aborts(d, L) ==
  IF seat_rows(Overlay(d, L.wr), Classroom, L.seats[L.i], L.date, L.slot, "approved") # {}
  THEN [L EXCEPT !.pc = "done", !.wr = Empty, !.res = "none_booked"]
  ELSE [L EXCEPT !.pc = "book"]

\* is_taken: a seat with an approved row is skipped
admin_booking_taken(d, L) ==
  IF seat_rows(Overlay(d, L.wr), Classroom, L.seats[L.i], L.date, L.slot, "approved") # {}
  THEN admin_booking_next(L)
  ELSE [L EXCEPT !.pc = "book"]

\* the pending rows the UPDATE of the current seat rejects
admin_booking_kicked(d, L) ==
  seat_rows(Overlay(d, L.wr), Classroom, L.seats[L.i], L.date, L.slot, "pending")

\* filter(..., status='pending').update(status='rejected'), then create(status='approved')
admin_booking_book(d, L, others) ==
  LET v == Overlay(d, L.wr)
      k == admin_booking_kicked(d, L)
      w == Overlay(L.wr, [i \in k |-> [v[i] EXCEPT !.status = "rejected"]])
      res == Reservation(L.batch, L.student, L.seats[L.i], L.date, L.slot, "approved",
                         L.now, TRUE, "admin_booking")
  IN admin_booking_next([L EXCEPT !.wr = Overlay(w, (new_id(d, w, others) :> res)),
                                  !.created_count = L.created_count + 1])

admin_booking_step(d, L, others) ==
  CASE L.pc = "check" -> [db |-> d, L |-> admin_booking_check(L)]
    [] L.pc = "taken" -> [db |-> d, L |-> admin_booking_taken(d, L)]
    [] L.pc = "book" -> [db |-> d, L |-> admin_booking_book(d, L, others)]
    [] L.pc = "commit" -> [db |-> Overlay(d, L.wr),
                           L |-> [L EXCEPT !.pc = "done", !.wr = Empty,
                                           !.res = IF L.created_count > 0 THEN "ok" ELSE "none_booked"]]

(* --------------------------- cancel_booking --------------------------- *)
cancel_booking_begin(s, b, t) ==
  [op |-> "cancel_booking", pc |-> "read", student |-> s, batch |-> b, now |-> t,
   qs |-> <<>>, i |-> 1, wr |-> Empty, res |-> "none"]

\* variant: the batch's rows of every student are selected
cancel_booking_read_any_student(d, L) ==
  LET qs == {i \in DOMAIN d : d[i].batch = L.batch /\ d[i].status \in {"pending", "approved"}}
      first_res == d[Min(qs)]
  IN IF qs = {} THEN [L EXCEPT !.pc = "done", !.res = "nothing"]
     ELSE IF past_deadline(L.now, first_res.date, first_res.slot)
          THEN [L EXCEPT !.pc = "done", !.res = "deadline"]
     ELSE [L EXCEPT !.pc = "save",
                    !.qs = [k \in 1..Cardinality(qs) |->
                              [id |-> SetToSeq(qs)[k], row |-> d[SetToSeq(qs)[k]]]]]

\* qs.exists(), qs.first() and the deadline of the first row only
cancel_booking_read(d, L) ==
  LET qs == {i \in DOMAIN d : /\ d[i].batch = L.batch /\ d[i].student = L.student
                              /\ d[i].status \in {"pending", "approved"}}
      first_res == d[Min(qs)]
  IN IF qs = {} THEN [L EXCEPT !.pc = "done", !.res = "nothing"]
     ELSE IF past_deadline(L.now, first_res.date, first_res.slot)
          THEN [L EXCEPT !.pc = "done", !.res = "deadline"]
     ELSE [L EXCEPT !.pc = "save",
                    !.qs = [k \in 1..Cardinality(qs) |->
                              [id |-> SetToSeq(qs)[k], row |-> d[SetToSeq(qs)[k]]]]]

\* res.status = 'cancelled'; res.is_admin_action = False; res.save()
cancel_booking_save(L) ==
  LET e == L.qs[L.i]
      w == Overlay(L.wr, (e.id :> [e.row EXCEPT !.status = "cancelled", !.admin = FALSE]))
  IN IF L.i < Len(L.qs) THEN [L EXCEPT !.wr = w, !.i = L.i + 1]
     ELSE [L EXCEPT !.wr = w, !.pc = "commit"]

cancel_booking_step(d, L) ==
  CASE L.pc = "read" -> [db |-> d, L |-> cancel_booking_read(d, L)]
    [] L.pc = "save" -> [db |-> d, L |-> cancel_booking_save(L)]
    [] L.pc = "commit" -> [db |-> Overlay(d, L.wr),
                           L |-> [L EXCEPT !.pc = "done", !.wr = Empty, !.res = "ok"]]

(* ------------------------------- cleanup ------------------------------ *)
RESERVATION_TIMEOUT_HOURS == 24
RESERVATION_EXPIRE_DAYS == 1

cleanup_begin(t) ==
  [op |-> "cleanup", pc |-> "read", now |-> t, pending_reservations |-> <<>>, i |-> 1,
   wr |-> Empty, res |-> "none"]

\* filter(status='pending', date__gte=today), read into memory
cleanup_read(d, L) ==
  LET p == {i \in DOMAIN d : d[i].status = "pending" /\ d[i].date >= today(L.now)}
  IN [L EXCEPT !.pc = IF p = {} THEN "timeout" ELSE "row",
               !.pending_reservations = [k \in 1..Cardinality(p) |->
                                           [id |-> SetToSeq(p)[k], row |-> d[SetToSeq(p)[k]]]]]

\* variant: the deadline loop saves nothing
cleanup_saves_none(L) == {}

\* the row the next turn of the deadline loop saves, if its deadline has passed
cleanup_saves(L) ==
  IF L.pc = "row" /\ past_deadline(L.now, L.pending_reservations[L.i].row.date,
                                   L.pending_reservations[L.i].row.slot)
  THEN {L.pending_reservations[L.i].id} ELSE {}

\* 0. res.status = 'expired'; res.save() of the row as it was read
cleanup_row(d, L) ==
  LET e == L.pending_reservations[L.i]
      d2 == IF cleanup_saves(L) # {} THEN Overlay(d, (e.id :> [e.row EXCEPT !.status = "expired"]))
            ELSE d
  IN [db |-> d2,
      L |-> IF L.i < Len(L.pending_reservations) THEN [L EXCEPT !.i = L.i + 1]
            ELSE [L EXCEPT !.pc = "timeout"]]

\* variant: the timeout UPDATE without its status filter
cleanup_timed_out_any(d, L) ==
  {i \in DOMAIN d : d[i].created < L.now - RESERVATION_TIMEOUT_HOURS * 60}

\* 1. filter(status='pending', created_at__lt=timeout_threshold)
cleanup_timed_out(d, L) ==
  {i \in DOMAIN d : /\ d[i].status = "pending"
                    /\ d[i].created < L.now - RESERVATION_TIMEOUT_HOURS * 60}

\* 2. filter(status='pending', date__lte=cutoff_date)
cleanup_date_passed(d, L) ==
  {i \in DOMAIN d : /\ d[i].status = "pending"
                    /\ d[i].date <= today(L.now) - RESERVATION_EXPIRE_DAYS}

\* variant: the UPDATE changes nothing
expire_rows_none(d, S) == d

expire_rows(d, S) == [i \in DOMAIN d |-> IF i \in S THEN [d[i] EXCEPT !.status = "expired"] ELSE d[i]]

cleanup_step(d, L) ==
  CASE L.pc = "read" -> [db |-> d, L |-> cleanup_read(d, L)]
    [] L.pc = "row" -> cleanup_row(d, L)
    [] L.pc = "timeout" -> [db |-> expire_rows(d, cleanup_timed_out(d, L)),
                            L |-> [L EXCEPT !.pc = "date"]]
    [] L.pc = "date" -> [db |-> expire_rows(d, cleanup_date_passed(d, L)),
                         L |-> [L EXCEPT !.pc = "done", !.res = "ok"]]

(* ----------------------- administrator's cancel ----------------------- *)
\* variant: only the selected pending rows are cancelled
cancel_pending_selected(d, pending_list) ==
  [i \in DOMAIN d |-> IF i \in pending_list THEN [d[i] EXCEPT !.status = "cancelled"] ELSE d[i]]

\* every pending row competing for a seat of a selected pending row is cancelled
cancel_pending(d, pending_list) ==
  LET hit == {i \in DOMAIN d : /\ d[i].status = "pending"
                               /\ \E j \in pending_list :
                                    /\ d[j].classroom = d[i].classroom /\ d[j].seat = d[i].seat
                                    /\ d[j].date = d[i].date /\ d[j].slot = d[i].slot}
  IN [i \in DOMAIN d |-> IF i \in hit THEN [d[i] EXCEPT !.status = "cancelled"] ELSE d[i]]

RECURSIVE cancel_approved(_, _, _, _)
\* per student, in order of first selected row: the rows are cancelled as read, and one
\* record of the cancellation is created
cancel_approved(d, d0, approved_list, t) ==
  IF approved_list = {} THEN d
  ELSE LET first_res == d0[Min(approved_list)]
           mine == {i \in approved_list : d0[i].student = first_res.student}
           d2 == [i \in DOMAIN d |-> IF i \in mine THEN [d0[i] EXCEPT !.status = "cancelled"] ELSE d[i]]
           rec == Reservation(uuid4(d2, {}), first_res.student, first_res.seat, first_res.date,
                              first_res.slot, "cancelled", t, TRUE, "admin_cancel")
       IN cancel_approved(Overlay(d2, (new_id(d2, Empty, {}) :> rec)), d0,
                          approved_list \ mine, t)

\* admin_cancel_view POST: can_cancel is that of the date and slot the page shows
admin_cancel_view_post(d, res_ids, page_date, page_slot, t) ==
  LET sel == {i \in res_ids \cap DOMAIN d : d[i].status \in {"pending", "approved"}}
      can_cancel == t < booking_deadline(page_date, page_slot)
      pending_list == {i \in sel : d[i].status = "pending"}
      approved_list == {i \in sel : d[i].status = "approved" /\ can_cancel}
  IN cancel_approved(cancel_pending(d, pending_list), d, approved_list, t)

\* ReservationAdmin.cancel_reservations: can_cancel is that of each row
cancel_reservations_rows(d, res_ids, t) ==
  LET sel == {i \in res_ids \cap DOMAIN d : d[i].status \in {"pending", "approved"}}
      pending_list == {i \in sel : d[i].status = "pending"}
      approved_can_cancel == {i \in sel : /\ d[i].status = "approved"
                                          /\ ~past_deadline(t, d[i].date, d[i].slot)}
  IN cancel_approved(cancel_pending(d, pending_list), d, approved_can_cancel, t)

(* -------------------------- send_access_codes ------------------------- *)
ACCESS_CODE_NOTIFY_MINUTES == 15

\* the AccessCode table (key -> notified), the mails handed to send_mail so far (ok: it
\* did not raise), the keys a run without --dry-run found inside their window, and the
\* number of runs so far
NoAccess == [codes |-> Empty, mails |-> {}, ran |-> {}, runs |-> 0]

\* notify_time <= now < slot_start, for the slot on the day of t
notify_window(t, slot) ==
  /\ slot_start(today(t), slot) - ACCESS_CODE_NOTIFY_MINUTES <= t
  /\ t < slot_start(today(t), slot)

\* variant: the reservations of the slot, whatever their status
approved_reservations_any(d, c, date, slot) ==
  {i \in DOMAIN d : d[i].classroom = c /\ d[i].date = date /\ d[i].slot = slot}

\* filter(classroom=.., date=today, time_slot=slot_id, status='approved')
approved_reservations(d, c, date, slot) ==
  {i \in DOMAIN d : /\ d[i].classroom = c /\ d[i].date = date /\ d[i].slot = slot
                    /\ d[i].status = "approved"}

\* student_seats: the seats of each student's rows, in the order read
student_seats(d, S) ==
  [s \in {d[i].student : i \in S} |->
     LET mine == SetToSeq({i \in S : d[i].student = s})
     IN [k \in 1..Len(mine) |-> d[mine[k]].seat]]

\* variant: the notified flag ignored
notified_never(codes, key) == FALSE

\* if access_code_obj.notified
notified(codes, key) == codes[key]

\* the body of the loop for one slot and the one classroom
send_slot(d, acc, t, slot, dry_run, failing) ==
  LET key == <<Classroom, today(t), slot>>
      \* get_or_create(..., defaults={'notified': False})
      codes == IF key \in DOMAIN acc.codes THEN acc.codes ELSE acc.codes @@ (key :> FALSE)
      approved == approved_reservations(d, Classroom, today(t), slot)
      seats == student_seats(d, approved)
      run_mails == {[student |-> s, classroom |-> Classroom, date |-> today(t), slot |-> slot, seats |-> seats[s],
                     run |-> acc.runs, ok |-> s \notin failing] : s \in DOMAIN seats}
      in_window == [acc EXCEPT !.ran = IF dry_run THEN acc.ran ELSE acc.ran \cup {key}]
  IN IF ~notify_window(t, slot) THEN acc
     ELSE IF notified(codes, key) THEN [in_window EXCEPT !.codes = codes]
     ELSE IF approved = {} THEN [in_window EXCEPT !.codes = [codes EXCEPT ![key] = TRUE]]
     ELSE IF dry_run THEN [in_window EXCEPT !.codes = codes]
     ELSE [in_window EXCEPT !.codes = [codes EXCEPT ![key] = TRUE],
                            !.mails = acc.mails \cup run_mails]

RECURSIVE send_slots(_, _, _, _, _, _)
\* for slot_id, slot_label in TIME_SLOTS
send_slots(d, acc, t, slots, dry_run, failing) ==
  IF slots = <<>> THEN acc
  ELSE send_slots(d, send_slot(d, acc, t, Head(slots), dry_run, failing), t, Tail(slots),
                  dry_run, failing)

\* Command.handle of send_access_codes
send_access_codes_handle(d, acc, t, dry_run, failing) ==
  LET a == send_slots(d, [acc EXCEPT !.runs = acc.runs + 1], t, SetToSeq(Slots), dry_run, failing)
  IN a

(* ------------------------ ReservationAdminForm ------------------------ *)
\* Classroom.layout: rows of '1' (seat) and '0' (aisle)
layout == << <<"1", "1", "0">> >>

\* clean(): "ok", or the ValidationError raised; r_in and c_in are 1-based
form_clean(d, id, r_in, c_in, date, slot) ==
  LET real_r == r_in - 1
      real_c == c_in - 1
  IN IF real_r >= Len(layout) \/ real_r < 0 THEN "row_out_of_range"
     ELSE IF real_c >= Len(layout[real_r + 1]) \/ real_c < 0 THEN "col_out_of_range"
     ELSE IF layout[real_r + 1][real_c + 1] = "0" THEN "aisle"
     ELSE IF seat_rows(d, Classroom, <<real_r, real_c>>, date, slot, "approved") \ {id} # {}
          THEN "taken"
     ELSE "ok"

\* save(commit): the instance with the form's fields and, when commit is set, the
\* pending conflicts rejected; the admin site's save_form passes commit=False and
\* saves the instance itself
form_save(d, id, s, r_in, c_in, date, slot, st, commit) ==
  LET seat == <<r_in - 1, c_in - 1>>
      pending_conflicts == IF commit THEN seat_rows(d, Classroom, seat, date, slot, "pending") \ {id}
                           ELSE {}
  IN [i \in DOMAIN d |->
        IF i = id THEN [d[i] EXCEPT !.student = s, !.seat = seat, !.date = date, !.slot = slot,
                                    !.status = st, !.admin = TRUE]
        ELSE IF i \in pending_conflicts THEN [d[i] EXCEPT !.status = "rejected"]
        ELSE d[i]]

(* ------------------------- running a request -------------------------- *)
\* the existing rows the next statement of L writes (and must lock)
writes(d, L) ==
  CASE L.op = "admin_action" /\ L.pc = "competitors" -> competitors(d, L)
    [] L.op = "admin_action" -> admin_action_saves(L)
    [] L.op = "admin_booking" /\ L.pc = "book" -> admin_booking_kicked(d, L)
    [] L.op = "cancel_booking" /\ L.pc = "save" -> {L.qs[L.i].id}
    [] L.op = "cleanup" /\ L.pc = "row" -> cleanup_saves(L)
    [] L.op = "cleanup" /\ L.pc = "timeout" -> cleanup_timed_out(d, L)
    [] L.op = "cleanup" /\ L.pc = "date" -> cleanup_date_passed(d, L)
    [] OTHER -> {}

Step(d, L, others) ==
  CASE L.op = "submit" -> submit_step(d, L, others)
    [] L.op = "admin_action" -> admin_action_step(d, L)
    [] L.op = "admin_booking" -> admin_booking_step(d, L, others)
    [] L.op = "cancel_booking" -> cancel_booking_step(d, L)
    [] L.op = "cleanup" -> cleanup_step(d, L)

RECURSIVE Run(_, _)
\* a request running alone, to its response
Run(d, L) == IF L.pc = "done" THEN [db |-> d, L |-> L] ELSE LET r == Step(d, L, {}) IN Run(r.db, r.L)

(* ------------------------ sequential operations ----------------------- *)
Idle == [op |-> "none", pc |-> "idle", wr |-> Empty]
Procs == {"p1", "p2"}
NoResponse == [op |-> "none"]

\* the ids and the signing time of the approve/reject links mailed for batch b
link_ids(b) == {i \in DOMAIN db : db[i].batch = b /\ db[i].origin = "submit"}
link_issued(b) == db[Min(link_ids(b))].created
Batches == {db[i].batch : i \in {j \in DOMAIN db : db[j].origin = "submit"}}

Init ==
  /\ db = Empty
  /\ now = Min(Times)
  /\ last = NoResponse
  /\ procs = [p \in Procs |-> Idle]
  /\ form_saves = 0
  /\ access = NoAccess

\* no request is being answered
Ready == last.op = "none" /\ \A p \in Procs : procs[p] = Idle

\* the clock moves on to a later instant of T
Tick(T) ==
  /\ Ready
  /\ \E t \in T : t > now /\ now' = t
  /\ UNCHANGED <<db, last, procs, form_saves, access>>

\* the response reaches the client
Return ==
  /\ last.op # "none"
  /\ last' = NoResponse
  /\ UNCHANGED <<db, now, procs, form_saves, access>>

\* the table stays within the model's bound
Fits == Cardinality(DOMAIN db') <= MaxRes

\* a request handled alone: what was asked, the table it found, and its response
Response(op, args, res) == [op |-> op, args |-> args, pre |-> db, res |-> res]

\* a submit request handled alone, the table bounded by n rows
submit_within(n, s, date, slot, seats) ==
  /\ Ready
  /\ LET r == Run(db, submit_begin(s, date, slot, seats, now, uuid4(db, {})))
     IN /\ db' = r.db
        /\ last' = Response("submit", [student |-> s, date |-> date, slot |-> slot,
                                       seats |-> seats], r.L.res)
  /\ Cardinality(DOMAIN db') <= n
  /\ UNCHANGED <<now, procs, form_saves, access>>

submit(s, date, slot, seats) == submit_within(MaxRes, s, date, slot, seats)

admin_action(b, action) ==
  /\ Ready
  /\ b \in Batches
  /\ LET args == [ids |-> link_ids(b), action |-> action]
     IN IF (now - link_issued(b)) * 60 > TOKEN_MAX_AGE
        THEN /\ last' = Response("admin_action", args, "bad_link")
             /\ UNCHANGED db
        ELSE LET r == Run(db, admin_action_begin(link_ids(b), action, now))
             IN /\ db' = r.db
                /\ last' = Response("admin_action", args, r.L.res)
                             @@ [counts |-> admin_action_response(r.L)]
  /\ UNCHANGED <<now, procs, form_saves, access>>

\* an admin_booking_view POST handled alone, the table bounded by n rows
admin_booking_view_within(n, s, date, slot, seats) ==
  /\ Ready
  /\ LET r == Run(db, admin_booking_begin(s, date, slot, seats, now, uuid4(db, {})))
     IN /\ db' = r.db
        /\ last' = Response("admin_booking_view", [student |-> s, date |-> date, slot |-> slot,
                                                   seats |-> seats], r.L.res)
  /\ Cardinality(DOMAIN db') <= n
  /\ UNCHANGED <<now, procs, form_saves, access>>

admin_booking_view(s, date, slot, seats) ==
  admin_booking_view_within(MaxRes, s, date, slot, seats)

cancel_booking(s, b) ==
  /\ Ready
  /\ LET r == Run(db, cancel_booking_begin(s, b, now))
     IN /\ db' = r.db
        /\ last' = Response("cancel_booking", [student |-> s, batch |-> b], r.L.res)
  /\ UNCHANGED <<now, procs, form_saves, access>>

cleanup ==
  /\ Ready
  /\ LET r == Run(db, cleanup_begin(now))
     IN /\ db' = r.db
        /\ last' = Response("cleanup", <<>>, r.L.res)
  /\ UNCHANGED <<now, procs, form_saves, access>>

\* an admin_cancel_view POST handled alone, the table bounded by n rows
admin_cancel_view_within(n, res_ids, page_date, page_slot) ==
  /\ Ready
  /\ res_ids # {}
  /\ LET d == admin_cancel_view_post(db, res_ids, page_date, page_slot, now)
     IN /\ db' = d
        /\ last' = Response("admin_cancel_view",
                            [ids |-> res_ids, date |-> page_date, slot |-> page_slot],
                            IF d = db THEN "none_cancelled" ELSE "ok")
  /\ Cardinality(DOMAIN db') <= n
  /\ UNCHANGED <<now, procs, form_saves, access>>

admin_cancel_view(res_ids, page_date, page_slot) ==
  admin_cancel_view_within(MaxRes, res_ids, page_date, page_slot)

\* the cancel_reservations admin action handled alone, the table bounded by n rows
cancel_reservations_within(n, res_ids) ==
  /\ Ready
  /\ res_ids # {}
  /\ LET d == cancel_reservations_rows(db, res_ids, now)
     IN /\ db' = d
        /\ last' = Response("cancel_reservations", [ids |-> res_ids],
                            IF d = db THEN "none_cancelled" ELSE "ok")
  /\ Cardinality(DOMAIN db') <= n
  /\ UNCHANGED <<now, procs, form_saves, access>>

cancel_reservations(res_ids) == cancel_reservations_within(MaxRes, res_ids)

\* the fields a change form posts for row r: those of the row, at most one of them edited
FormPosts(r) ==
  LET f == [student |-> r.student, row_input |-> r.seat[1] + 1, col_input |-> r.seat[2] + 1,
            date |-> r.date, time_slot |-> r.slot, status |-> r.status]
  IN {[f EXCEPT !.student = s] : s \in Students}
       \cup {[f EXCEPT !.col_input = c] : c \in 1..Len(layout[1])}
       \cup {[f EXCEPT !.date = d] : d \in Dates}
       \cup {[f EXCEPT !.time_slot = sl] : sl \in Slots}
       \cup {[f EXCEPT !.status = st] : st \in Statuses}

ReservationAdminForm(id, f, commit) ==
  /\ Ready
  /\ form_saves < MaxFormSaves
  /\ LET v == form_clean(db, id, f.row_input, f.col_input, f.date, f.time_slot)
     IN /\ db' = IF v = "ok"
                 THEN form_save(db, id, f.student, f.row_input, f.col_input, f.date,
                                f.time_slot, f.status, commit)
                 ELSE db
        /\ form_saves' = IF v = "ok" THEN form_saves + 1 ELSE form_saves
        /\ last' = Response("ReservationAdminForm", [id |-> id, form |-> f, commit |-> commit], v)
  /\ UNCHANGED <<now, procs, access>>

SeatLists == SeqsUpTo(Seats, MaxSeats)

\* one run of the send_access_codes command; send_mail raises for the students in failing
send_access_codes(dry_run, failing) ==
  /\ Ready
  /\ access.runs < MaxRuns
  /\ access' = send_access_codes_handle(db, access, now, dry_run, failing)
  /\ last' = Response("send_access_codes", [dry_run |-> dry_run], "done")
                @@ [pre_access |-> access]
  /\ UNCHANGED <<db, now, procs, form_saves>>

Next ==
  \/ Tick(Times)
  \/ Return
  \/ \E s \in Students, date \in SubmitDates, slot \in Slots, seats \in SeatLists :
       submit(s, date, slot, seats)
  \/ \E b \in Batches, action \in {"approve", "reject"} : admin_action(b, action)
  \/ \E s \in Students, date \in SubmitDates, slot \in Slots, seats \in SeatLists :
       admin_booking_view(s, date, slot, seats)
  \/ \E s \in Students, b \in {db[i].batch : i \in DOMAIN db} : cancel_booking(s, b)
  \/ cleanup
  \/ \E res_ids \in SUBSET DOMAIN db, date \in Dates, slot \in Slots :
       admin_cancel_view(res_ids, date, slot)
  \/ \E res_ids \in SUBSET DOMAIN db : cancel_reservations(res_ids)
  \/ \E id \in DOMAIN db, commit \in BOOLEAN : \E f \in FormPosts(db[id]) :
       ReservationAdminForm(id, f, commit)

Spec == Init /\ [][Next]_vars

\* the instants around the notification window of day 0's slots
CodeTimes ==
  UNION {{slot_start(0, s) - ACCESS_CODE_NOTIFY_MINUTES - 1,
          slot_start(0, s) - ACCESS_CODE_NOTIFY_MINUTES, slot_start(0, s)} : s \in Slots}

\* The requests that make, decide and edit reservations, and the scheduler's
\* send_access_codes runs, with the clock passing through the notification window.
NextCodes ==
  \/ Tick(CodeTimes)
  \/ Return
  \/ \E s \in Students, date \in SubmitDates, slot \in Slots, seats \in SeatLists :
       submit(s, date, slot, seats)
  \/ \E b \in Batches, action \in {"approve", "reject"} : admin_action(b, action)
  \/ \E s \in Students, b \in {db[i].batch : i \in DOMAIN db} : cancel_booking(s, b)
  \/ \E id \in DOMAIN db, commit \in BOOLEAN :
       \E f \in {g \in FormPosts(db[id]) : g.status # db[id].status} :
         ReservationAdminForm(id, f, commit)
  \/ \E dry_run \in BOOLEAN, failing \in SUBSET Students : send_access_codes(dry_run, failing)

SpecCodes == Init /\ [][NextCodes]_vars

\* day 0 and the dates at and just past the limits of both roles seen from day 0: on
\* day 1 the first is past and the dates just past the limits are exactly at them
RequestDates ==
  {0, RESERVATION_MAX_DAYS_AHEAD, RESERVATION_MAX_DAYS_AHEAD + 1,
   RESERVATION_MAX_DAYS_AHEAD_MANAGER, RESERVATION_MAX_DAYS_AHEAD_MANAGER + 1}
\* each seat alone, and different seats together in the order of the room
RequestSeats ==
  {q \in SeqsUpTo(Seats, MaxSeats) : \A i, j \in DOMAIN q : i < j =>
     (q[i][1] < q[j][1] \/ (q[i][1] = q[j][1] /\ q[i][2] < q[j][2]))}

\* Students asking for dates near and far, and the administrator deciding by the links.
NextDates ==
  \/ Tick(Times)
  \/ Return
  \/ \E s \in Students, date \in RequestDates, slot \in Slots, seats \in RequestSeats :
       submit(s, date, slot, seats)
  \/ \E b \in Batches, action \in {"approve", "reject"} : admin_action(b, action)

SpecDates == Init /\ [][NextDates]_vars

\* Requests for one or two seats of a slot, the administrator deciding them by the links
\* and editing statuses in the change form.
NextLinks ==
  \/ Tick(Day0)
  \/ Return
  \/ \E s \in Students, date \in SubmitDates, slot \in Slots, seats \in RequestSeats :
       submit_within(MaxLinkRows, s, date, slot, seats)
  \/ \E b \in Batches, action \in {"approve", "reject"} : admin_action(b, action)
  \/ \E id \in DOMAIN db, commit \in BOOLEAN :
       \E f \in {g \in FormPosts(db[id]) : g.status # db[id].status} :
         ReservationAdminForm(id, f, commit)

SpecLinks == Init /\ [][NextLinks]_vars

\* the change form's posts for row r with any position typed into row_input and
\* col_input: the rows and columns of the layout and one past the last of each
FormInputs(r) ==
  UNION {{[g EXCEPT !.row_input = x, !.col_input = c] :
            x \in 1..(Len(layout) + 1), c \in 1..(Len(layout[1]) + 1)} : g \in FormPosts(r)}

\* Requests for one or two seats of a slot, decided by the links, and the administrator's
\* change form posted with any position, saved by the form itself or by its caller.
NextForm ==
  \/ Tick(Day0)
  \/ Return
  \/ \E s \in Students, date \in SubmitDates, slot \in Slots, seats \in RequestSeats :
       submit(s, date, slot, seats)
  \/ \E b \in Batches, action \in {"approve", "reject"} : admin_action(b, action)
  \/ \E id \in DOMAIN db, commit \in BOOLEAN : \E f \in FormInputs(db[id]) :
       ReservationAdminForm(id, f, commit)

SpecForm == Init /\ [][NextForm]_vars

\* Reservations made, approved, cancelled by the student or by the administrator, and
\* the seat asked for again.
NextRelease ==
  \/ Tick(Day0)
  \/ Return
  \/ \E s \in Students, date \in SubmitDates, slot \in Slots, seats \in RequestSeats :
       submit_within(MaxLinkRows, s, date, slot, seats)
  \/ \E b \in Batches, action \in {"approve", "reject"} : admin_action(b, action)
  \/ \E s \in Students, b \in {db[i].batch : i \in DOMAIN db} : cancel_booking(s, b)
  \/ \E res_ids \in SUBSET DOMAIN db, date \in Dates, slot \in Slots :
       admin_cancel_view_within(MaxLinkRows, res_ids, date, slot)
  \/ \E res_ids \in SUBSET DOMAIN db : cancel_reservations_within(MaxLinkRows, res_ids)

SpecRelease == Init /\ [][NextRelease]_vars

\* Students' requests, the links, and the administrator booking seats for students from
\* the booking page.
NextBookings ==
  \/ Tick(Day0)
  \/ Return
  \/ \E s \in Students, date \in SubmitDates, slot \in Slots, seats \in RequestSeats :
       submit_within(MaxLinkRows, s, date, slot, seats)
  \/ \E b \in Batches, action \in {"approve", "reject"} : admin_action(b, action)
  \/ \E s \in Targets, date \in SubmitDates, slot \in Slots, seats \in SeatLists :
       admin_booking_view_within(MaxLinkRows, s, date, slot, seats)

SpecBookings == Init /\ [][NextBookings]_vars

\* The clock keeps moving, whatever requests arrive, and every response is delivered.
SpecLive == Init /\ [][Next]_vars /\ WF_vars(Return) /\ SF_vars(Tick(Times))

(* ------------------------ overlapping requests ------------------------ *)
\* Two requests at a time, each in its own transaction.atomic(): a statement reads the
\* committed table under the request's own writes, a written row stays locked until the
\* writer commits or rolls back, and a statement that needs a locked row waits.
Running(L) == L.pc \notin {"idle", "done"}

\* the rows other requests have written and not yet committed
locked_by_others(p) == UNION {DOMAIN procs[q].wr : q \in Procs \ {p}}

\* the next statement of p needs a row another request holds
blocked(p) == Running(procs[p]) /\ writes(db, procs[p]) \cap locked_by_others(p) # {}

\* the rows the requests in flight may still insert
inserts(L) == IF L.op \in {"submit", "admin_booking"} /\ Running(L) THEN Len(L.seats) ELSE 0
room(n) == Cardinality(DOMAIN db) + inserts(procs["p1"]) + inserts(procs["p2"]) + n <= MaxRes

batches_in_flight == {procs[q].batch : q \in {r \in Procs : procs[r].op \in {"submit", "admin_booking"}}}

start(p, L) ==
  /\ last.op = "none"
  /\ procs[p] = Idle
  /\ procs' = [procs EXCEPT ![p] = L]
  /\ UNCHANGED <<db, now, last, form_saves, access>>

submit_starts(p, s, seat) ==
  /\ room(1)
  /\ start(p, submit_begin(s, today(now), 1, <<seat>>, now, uuid4(db, batches_in_flight)))

admin_action_starts(p, b) ==
  /\ b \in Batches
  /\ (now - link_issued(b)) * 60 <= TOKEN_MAX_AGE
  /\ start(p, admin_action_begin(link_ids(b), "approve", now))

admin_booking_view_starts(p, s, seat) ==
  /\ room(1)
  /\ start(p, admin_booking_begin(s, today(now), 1, <<seat>>, now, uuid4(db, batches_in_flight)))

cancel_booking_starts(p, s, b) ==
  /\ b \in {db[i].batch : i \in DOMAIN db}
  /\ start(p, cancel_booking_begin(s, b, now))

\* the scheduler thread calls the cleanup command
cleanup_starts(p) == start(p, cleanup_begin(now))

\* the clock moves on within day 0, whatever the requests in flight are doing; each
\* request keeps the now it read when it began
ClockAdvances ==
  /\ last.op = "none"
  /\ \E t \in Day0 : t > now /\ now' = t
  /\ UNCHANGED <<db, last, procs, form_saves, access>>

\* the next statement of request p
ProcStep(p) ==
  /\ Running(procs[p])
  /\ ~blocked(p)
  /\ LET r == Step(db, procs[p], locked_by_others(p))
     IN /\ db' = r.db
        /\ procs' = [procs EXCEPT ![p] = r.L]
  /\ UNCHANGED <<now, last, form_saves, access>>

\* two requests wait for each other's rows: the database rolls one of them back
ProcAbort(p) ==
  /\ blocked(p)
  /\ \E q \in Procs \ {p} : blocked(q)
  /\ procs' = [procs EXCEPT ![p] = [procs[p] EXCEPT !.pc = "done", !.wr = Empty, !.res = "deadlock"]]
  /\ UNCHANGED <<db, now, last, form_saves, access>>

\* every request in flight has been answered
ProcsReturn ==
  /\ \E p \in Procs : procs[p].pc = "done"
  /\ \A p \in Procs : ~Running(procs[p])
  /\ procs' = [p \in Procs |-> Idle]
  /\ UNCHANGED <<db, now, last, form_saves, access>>

NextConc ==
  \/ \E p \in Procs, s \in Students, seat \in Seats : submit_starts(p, s, seat)
  \/ \E p \in Procs, b \in Batches : admin_action_starts(p, b)
  \/ \E p \in Procs, s \in Students, seat \in Seats : admin_booking_view_starts(p, s, seat)
  \/ \E p \in Procs : ProcStep(p)
  \/ \E p \in Procs : ProcAbort(p)
  \/ ProcsReturn

SpecConc == Init /\ [][NextConc]_vars

\* The scheduler thread's cleanup (p2) beside one web request at a time (p1), with
\* the clock moving.  cleanup runs outside any transaction: each of its statements
\* commits at once.
NextSched ==
  \/ \E s \in Students, seat \in Seats : submit_starts("p1", s, seat)
  \/ \E b \in Batches : admin_action_starts("p1", b)
  \/ \E s \in Students, b \in {db[i].batch : i \in DOMAIN db} : cancel_booking_starts("p1", s, b)
  \/ cleanup_starts("p2")
  \/ ClockAdvances
  \/ \E p \in Procs : ProcStep(p)
  \/ ProcsReturn

SpecSched == Init /\ [][NextSched]_vars

\* One web worker serving submits and the administrator's approve links, another serving
\* the students' cancel_booking requests.
NextCancels ==
  \/ \E s \in Students, seat \in Seats : submit_starts("p1", s, seat)
  \/ \E b \in Batches : admin_action_starts("p1", b)
  \/ \E s \in Students, b \in {db[i].batch : i \in DOMAIN db} : cancel_booking_starts("p2", s, b)
  \/ \E p \in Procs : ProcStep(p)
  \/ ProcsReturn

SpecCancels == Init /\ [][NextCancels]_vars

\* room for one more row under the bound MaxBatchRows
room_batches ==
  Cardinality(DOMAIN db) + inserts(procs["p1"]) + inserts(procs["p2"]) + 1 <= MaxBatchRows

submit_batch_starts(p, s, seat) ==
  /\ room_batches
  /\ start(p, submit_begin(s, today(now), 1, <<seat>>, now, uuid4(db, batches_in_flight)))

\* Two web workers serving one-seat submit requests, enough of them to reach the limit of
\* pending batches.
NextBatches ==
  \/ \E p \in Procs, s \in Students, seat \in Seats : submit_batch_starts(p, s, seat)
  \/ \E p \in Procs : ProcStep(p)
  \/ ProcsReturn

SpecBatches == Init /\ [][NextBatches]_vars

(* ------------------------------ properties ---------------------------- *)
same_seat(r1, r2) ==
  /\ r1.classroom = r2.classroom /\ r1.seat = r2.seat
  /\ r1.date = r2.date /\ r1.slot = r2.slot

\* the rows a request created
created_rows == DOMAIN db \ DOMAIN last.pre

\* C1: whatever whole requests have run, no two approved reservations share a
\* classroom, date, time slot and seat.
C1_OneApprovedPerSeat ==
  \A i, j \in DOMAIN db :
    (i # j /\ db[i].status = "approved" /\ db[j].status = "approved") => ~same_seat(db[i], db[j])

\* one approve link held two requests for one seat: the first was approved and the
\* second, finding the seat taken, rejected
C1_Witness ==
  /\ last.op = "admin_action"
  /\ \E i, j \in last.args.ids :
       /\ i # j /\ same_seat(db[i], db[j])
       /\ last.pre[i].status = "pending" /\ db[i].status = "approved"
       /\ last.pre[j].status = "pending" /\ db[j].status = "rejected"

\* C3: when admin_action has approved a pending reservation, every reservation that
\* was pending for the same seat, date and slot is rejected, and none is left pending.
C3_ApproveRejectsCompetitors ==
  (last.op = "admin_action" /\ last.args.action = "approve") =>
    \A i \in DOMAIN last.pre :
      (last.pre[i].status = "pending" /\ db[i].status = "approved") =>
        /\ \A j \in DOMAIN last.pre \ {i} :
             (last.pre[j].status = "pending" /\ same_seat(last.pre[j], last.pre[i]))
               => db[j].status = "rejected"
        /\ seat_rows(db, db[i].classroom, db[i].seat, db[i].date, db[i].slot, "pending") = {}

C3_Witness ==
  /\ last.op = "admin_action" /\ last.args.action = "approve"
  /\ \E i, j \in DOMAIN db :
       /\ i # j /\ same_seat(last.pre[i], last.pre[j])
       /\ last.pre[i].student # last.pre[j].student
       /\ last.pre[i].status = "pending" /\ db[i].status = "approved"
       /\ last.pre[j].status = "pending" /\ db[j].status = "rejected"

\* a seat of the request has an approved reservation when submit starts
locked_seat(d, a, k) == seat_rows(d, Classroom, a.seats[k], a.date, a.slot, "approved") # {}

\* C4: a submit that names a seat with an approved reservation leaves the table as it
\* found it, whatever seats come before the locked one, and answers with an error.
C4_LockedSeatAbortsSubmit ==
  (last.op = "submit" /\ \E k \in 1..Len(last.args.seats) : locked_seat(last.pre, last.args, k)) =>
    (db = last.pre /\ last.res # "ok")

\* the first seat was free and the second locked: the first insert was rolled back
C4_Witness ==
  /\ last.op = "submit" /\ last.res = "locked"
  /\ Len(last.args.seats) = 2
  /\ ~locked_seat(last.pre, last.args, 1)
  /\ locked_seat(last.pre, last.args, 2)

\* C6: submit leaves every existing reservation as it was and creates only pending
\* ones; a seat that others have pending requests for can still be requested.
C6_SubmitOnlyAddsPending ==
  last.op = "submit" =>
    /\ \A i \in DOMAIN last.pre : i \in DOMAIN db /\ db[i] = last.pre[i]
    /\ \A i \in created_rows : db[i].status = "pending"

\* a second student's request for a seat another student has pending was accepted
C6_Witness ==
  /\ last.op = "submit" /\ last.res = "ok"
  /\ \E i \in created_rows, j \in DOMAIN last.pre :
       /\ same_seat(db[i], db[j]) /\ db[i].student # db[j].student
       /\ db[i].status = "pending" /\ db[j].status = "pending"

C8_LinkIdempotent ==
  last.op = "admin_action" =>
    /\ DOMAIN db = DOMAIN last.pre
    /\ \A i \in DOMAIN last.pre : last.pre[i].status # "pending" => db[i] = last.pre[i]
    /\ last.res # "bad_link" =>
         \A action \in {"approve", "reject"}, t \in {u \in Times : u >= now} :
           Run(db, admin_action_begin(last.args.ids, action, t)).db = db

\* a link that approved one reservation and rejected its competitor
C8_Witness ==
  /\ last.op = "admin_action"
  /\ \E i \in last.args.ids : last.pre[i].status = "pending" /\ db[i].status = "approved"
  /\ \E j \in DOMAIN db \ last.args.ids : db[j].status = "rejected"

\* C9: admin_action expires, and neither approves nor rejects, each pending
\* reservation of the link whose deadline has passed, for both links; the
\* reservations of the link still before their deadline are approved or rejected.
C9_DeadlineExpiresInsteadOfDeciding ==
  (last.op = "admin_action" /\ last.res # "bad_link") =>
    \A i \in DOMAIN last.pre :
      last.pre[i].status = "pending" =>
        IF past_deadline(now, last.pre[i].date, last.pre[i].slot)
        THEN /\ db[i].status \notin {"approved", "rejected"}
             /\ i \in last.args.ids => db[i].status = "expired"
        ELSE i \in last.args.ids =>
               /\ db[i].status \in {"approved", "rejected"}
               /\ last.args.action = "reject" => db[i].status = "rejected"

\* one link: a reservation past its deadline expired, another was approved
C9_Witness ==
  /\ last.op = "admin_action" /\ last.args.action = "approve"
  /\ \E i, j \in last.args.ids :
       /\ last.pre[i].status = "pending" /\ db[i].status = "expired"
       /\ last.pre[j].status = "pending" /\ db[j].status = "approved"

\* C10: submit creates nothing once the clock has reached the slot's start minus
\* RESERVATION_BOOKING_WINDOW_MINUTES, the deadline itself included.
C10_SubmitRefusedFromDeadline ==
  (last.op = "submit" /\ now >= slot_start(last.args.date, last.args.slot)
                                  - RESERVATION_BOOKING_WINDOW_MINUTES) =>
    (db = last.pre /\ last.res # "ok")

\* a submit made exactly at the deadline
C10_Witness ==
  /\ last.op = "submit" /\ last.res = "deadline"
  /\ now = slot_start(last.args.date, last.args.slot) - RESERVATION_BOOKING_WINDOW_MINUTES
  /\ today(now) <= last.args.date

\* both requests in flight have been answered, by op1 and op2 in either order
both_done(op1, op2) ==
  \E p, q \in Procs :
    /\ p # q /\ procs[p].pc = "done" /\ procs[q].pc = "done"
    /\ procs[p].op = op1 /\ procs[q].op = op2

\* C2: when two overlapping admin_action approve requests for different pending
\* reservations of one seat, date and slot have both completed, at most one of the
\* two reservations is approved.
C2_ConcurrentApprovesOneWinner ==
  both_done("admin_action", "admin_action") =>
    \A i \in procs["p1"].ids, j \in procs["p2"].ids :
      (i # j /\ same_seat(db[i], db[j])) =>
        ~(db[i].status = "approved" /\ db[j].status = "approved")

\* C5: when a submit and an overlapping admin_action approve or admin_booking_view
\* POST on one seat, date and slot have both completed, no pending reservation
\* shares the seat, date and slot of an approved one.
C5_NoPendingBesideApproved ==
  (both_done("submit", "admin_action") \/ both_done("submit", "admin_booking")) =>
    \A i, j \in DOMAIN db :
      same_seat(db[i], db[j]) => ~(db[i].status = "pending" /\ db[j].status = "approved")

\* the rows cancel_booking is asked about: the student's pending or approved rows of the batch
cancellable(d, a) ==
  {i \in DOMAIN d : /\ d[i].batch = a.batch /\ d[i].student = a.student
                    /\ d[i].status \in {"pending", "approved"}}

\* C11: cancel_booking cancels each pending or approved reservation of the student's
\* batch while the clock is before that reservation's slot start minus
\* RESERVATION_BOOKING_WINDOW_MINUTES, and changes no reservation whose deadline
\* has been reached.
C11_CancelRespectsDeadline ==
  last.op = "cancel_booking" =>
    \A i \in DOMAIN last.pre :
      IF i \in cancellable(last.pre, last.args)
         /\ now < slot_start(last.pre[i].date, last.pre[i].slot) - RESERVATION_BOOKING_WINDOW_MINUTES
      THEN db[i].status = "cancelled"
      ELSE db[i] = last.pre[i]

\* the three conditions under which a pending reservation r is stale at time t
deadline_reached(r, t) ==
  r.date >= today(t) /\ t >= slot_start(r.date, r.slot) - RESERVATION_BOOKING_WINDOW_MINUTES
timed_out(r, t) == t - r.created > RESERVATION_TIMEOUT_HOURS * 60
date_passed(r, t) == r.date <= today(t) - RESERVATION_EXPIRE_DAYS
stale(r, t) == deadline_reached(r, t) \/ timed_out(r, t) \/ date_passed(r, t)

\* C12: right after a cleanup run, every reservation that was pending and met one of
\* the three expiry conditions is expired, and no pending reservation meets any of them.
C12_CleanupExpiresStale ==
  last.op = "cleanup" =>
    /\ \A i \in DOMAIN last.pre :
         (last.pre[i].status = "pending" /\ stale(last.pre[i], now)) => db[i].status = "expired"
    /\ \A i \in DOMAIN db : db[i].status = "pending" => ~stale(db[i], now)

\* one run expired a reservation whose deadline was reached and another whose date had passed
C12_Witness ==
  /\ last.op = "cleanup"
  /\ \E i, j \in DOMAIN last.pre :
       /\ last.pre[i].status = "pending" /\ last.pre[j].status = "pending"
       /\ deadline_reached(last.pre[i], now) /\ ~date_passed(last.pre[i], now)
       /\ date_passed(last.pre[j], now) /\ ~deadline_reached(last.pre[j], now)
       /\ db[i].status = "expired" /\ db[j].status = "expired"

\* C13: a cleanup run changes only pending reservations that meet an expiry
\* condition, and only their status, to expired; every other reservation is unchanged.
C13_CleanupFrame ==
  last.op = "cleanup" =>
    /\ DOMAIN db = DOMAIN last.pre
    /\ \A i \in DOMAIN last.pre :
         IF last.pre[i].status = "pending" /\ stale(last.pre[i], now)
         THEN db[i] = [last.pre[i] EXCEPT !.status = "expired"]
         ELSE db[i] = last.pre[i]

\* one run expired a stale reservation and left a pending one that was not stale
C13_Witness ==
  /\ last.op = "cleanup"
  /\ \E i, j \in DOMAIN last.pre :
       /\ last.pre[i].status = "pending" /\ db[i].status = "expired"
       /\ last.pre[j].status = "pending" /\ ~stale(last.pre[j], now) /\ db[j] = last.pre[j]

is_pending(id) == IF id \in DOMAIN db THEN db[id].status = "pending" ELSE FALSE

\* the scheduler thread keeps calling cleanup: while True: call_command('cleanup'); sleep
cleanup_keeps_running == []<>(last.op = "cleanup")

\* C15: with the clock moving and cleanup run again and again, every pending
\* reservation eventually is no longer pending, whatever else is or is not requested.
C15_PendingEventuallyLeaves ==
  cleanup_keeps_running => \A id \in 1..MaxRes : is_pending(id) ~> ~is_pending(id)

\* nobody acted on a reservation of day 0; a cleanup run of the next day expired it
C15_Witness ==
  /\ last.op = "cleanup" /\ today(now) = 1
  /\ \E i \in DOMAIN last.pre :
       /\ last.pre[i].status = "pending" /\ last.pre[i].date = 0
       /\ last.pre[i].origin = "submit" /\ ~last.pre[i].admin
       /\ ~is_pending(i)

(* --------------------------- access codes ----------------------------- *)
\* the mails the send_access_codes run just answered handed to send_mail
run_sent == access.mails \ last.pre_access.mails

\* student s holds an approved reservation of table d for classroom c, date and slot
holds_approved(d, s, c, date, slot) ==
  \E i \in DOMAIN d : /\ d[i].student = s /\ d[i].classroom = c /\ d[i].date = date
                      /\ d[i].slot = slot /\ d[i].status = "approved"

\* C16: a send_access_codes run mails the code of a classroom, date and slot only when
\* the date is today and slot start - ACCESS_CODE_NOTIFY_MINUTES <= now < slot start, and
\* only to students who hold an approved reservation for that classroom, date and slot
\* at that moment.
C16_CodesInWindowToApproved ==
  last.op = "send_access_codes" =>
    \A m \in run_sent :
      /\ m.date = today(now)
      /\ slot_start(m.date, m.slot) - ACCESS_CODE_NOTIFY_MINUTES <= now
      /\ now < slot_start(m.date, m.slot)
      /\ holds_approved(db, m.student, m.classroom, m.date, m.slot)

\* a run mailed one student while another student's reservation for the same slot,
\* not approved, got nothing
C16_Witness ==
  /\ last.op = "send_access_codes"
  /\ \E m \in run_sent : \E i \in DOMAIN db :
       /\ db[i].student # m.student /\ db[i].date = m.date /\ db[i].slot = m.slot
       /\ db[i].status \in {"pending", "rejected", "expired", "cancelled"}
       /\ \A n \in run_sent : n.student # db[i].student

\* student s was sent the code of classroom c, date and slot, and send_mail did not raise
code_sent(s, c, date, slot) ==
  \E m \in access.mails : /\ m.student = s /\ m.classroom = c /\ m.date = date
                          /\ m.slot = slot /\ m.ok

\* no send_mail for classroom c, date and slot raised
delivery_ok(c, date, slot) ==
  \A m \in access.mails : (m.classroom = c /\ m.date = date /\ m.slot = slot) => m.ok

\* C17: when the clock reaches the start of a slot, every student who holds an approved
\* reservation for the classroom, date and slot has been sent its access code, provided
\* a send_access_codes run of the scheduler fell inside the notification window and no
\* send_mail raised.
C17_CodeSentBeforeStart ==
  [][\A date \in Dates, slot \in Slots :
       (/\ now < slot_start(date, slot) /\ now' >= slot_start(date, slot)
        /\ <<Classroom, date, slot>> \in access.ran
        /\ delivery_ok(Classroom, date, slot))
       => \A s \in Students :
            holds_approved(db', s, Classroom, date, slot) => code_sent(s, Classroom, date, slot)]_vars

\* the classroom, date and slot a mail is about
mail_key(m) == <<m.classroom, m.date, m.slot>>

\* the seats of the approved reservations of table d student s holds for key k
approved_seats(d, s, k) ==
  {d[i].seat : i \in {j \in DOMAIN d : /\ d[j].student = s /\ d[j].classroom = k[1]
                                       /\ d[j].date = k[2] /\ d[j].slot = k[3]
                                       /\ d[j].status = "approved"}}

\* C18: the access code mails of one classroom, date and slot are all sent by one run: a
\* run that finds the AccessCode row notified sends nothing for it; and in the run that
\* sends, a student gets one mail, which lists every approved seat of theirs once.
C18_OneRunOneMail ==
  /\ \A m \in access.mails, n \in access.mails : mail_key(m) = mail_key(n) => m.run = n.run
  /\ last.op = "send_access_codes" =>
       /\ \A m \in run_sent :
            ~(mail_key(m) \in DOMAIN last.pre_access.codes /\ last.pre_access.codes[mail_key(m)])
       /\ \A m \in run_sent, n \in run_sent :
            (m.student = n.student /\ mail_key(m) = mail_key(n)) => m = n
       /\ \A m \in run_sent :
            /\ {m.seats[k] : k \in DOMAIN m.seats} = approved_seats(db, m.student, mail_key(m))
            /\ Len(m.seats) = Cardinality(approved_seats(db, m.student, mail_key(m)))

\* a second run without --dry-run, inside the window, sends nothing for the slot the first
\* run mailed, in one mail listing a student's two seats
C18_Witness ==
  /\ last.op = "send_access_codes" /\ ~last.args.dry_run
  /\ run_sent = {}
  /\ \E sl \in Slots : notify_window(now, sl)
  /\ \E m \in access.mails : Len(m.seats) = 2 /\ m.date = today(now) /\ m.run < access.runs

\* C19: a send_access_codes run without --dry-run, inside the notification window of a
\* slot, sends the code again to every student for whom an earlier run's send_mail raised
\* and who still holds an approved reservation for the slot.
C19_FailedMailRetried ==
  (last.op = "send_access_codes" /\ ~last.args.dry_run) =>
    \A m \in last.pre_access.mails :
      (/\ ~m.ok
       /\ m.date = today(now) /\ notify_window(now, m.slot)
       /\ holds_approved(db, m.student, m.classroom, m.date, m.slot))
      => \E n \in run_sent : n.student = m.student /\ mail_key(n) = mail_key(m)

(* ------------------------- pending batch limit ------------------------ *)
\* the batch ids among the pending reservations of student s dated today or later
pending_batches(s) ==
  {db[i].batch : i \in {j \in DOMAIN db : /\ db[j].student = s /\ db[j].status = "pending"
                                          /\ db[j].date >= today(now)}}

\* C20: in every state, whatever submit requests of one student overlap, a student has at
\* most MAX_PENDING_BATCHES distinct batch ids among their pending reservations dated
\* today or later.
C20_PendingBatchesLimited ==
  \A s \in Students : Cardinality(pending_batches(s)) <= MAX_PENDING_BATCHES

(* ------------------------- submit's refusals -------------------------- *)
\* student s has a pending or approved reservation of table d for date and slot
booked(d, s, date, slot) ==
  \E i \in DOMAIN d : /\ d[i].student = s /\ d[i].date = date /\ d[i].slot = slot
                      /\ d[i].status \in {"pending", "approved"}

\* the request, made before its deadline by a student below the limit of pending
\* batches, names no seat with an approved reservation
open_request(d, a, t) ==
  /\ t < slot_start(a.date, a.slot) - RESERVATION_BOOKING_WINDOW_MINUTES
  /\ current_pending_batches(d, a.student, t) < MAX_PENDING_BATCHES
  /\ \A k \in 1..Len(a.seats) : ~locked_seat(d, a, k)

\* the request created one row for each of its seats
all_created == Cardinality(created_rows) = Len(last.args.seats) /\ last.res = "ok"

days_ahead(s) ==
  IF role(s) = "manager" THEN RESERVATION_MAX_DAYS_AHEAD_MANAGER ELSE RESERVATION_MAX_DAYS_AHEAD

\* C22: submit creates nothing for a date before today or after today plus the role's
\* limit of days ahead, and accepts a date exactly at today plus the limit.
C22_DateWindow ==
  last.op = "submit" =>
    LET a == last.args IN
    /\ (a.date < today(now) \/ a.date > today(now) + days_ahead(a.student))
         => (db = last.pre /\ last.res # "ok")
    /\ (/\ a.date = today(now) + days_ahead(a.student)
        /\ open_request(last.pre, a, now)
        /\ role(a.student) = "user" =>
             (Len(a.seats) = 1 /\ ~booked(last.pre, a.student, a.date, a.slot)))
         => all_created

\* a manager's request for the last date the limit allows was accepted
C22_Witness ==
  /\ last.op = "submit" /\ last.res = "ok"
  /\ role(last.args.student) = "manager"
  /\ last.args.date = today(now) + RESERVATION_MAX_DAYS_AHEAD_MANAGER
  /\ created_rows # {}

(* -------------------------- partial approval -------------------------- *)
\* the approved reservations of table d for the seat, date and slot of row r
approved_for(d, r) == seat_rows(d, r.classroom, r.seat, r.date, r.slot, "approved")

\* the rows of the link the approval loop takes up: pending when the link is opened, the
\* deadline of their own date and slot not reached
decided(d, ids, t) ==
  {i \in ids \cap DOMAIN d :
     /\ d[i].status = "pending"
     /\ t < slot_start(d[i].date, d[i].slot) - RESERVATION_BOOKING_WINDOW_MINUTES}

\* C23: when admin_action takes up a pending reservation of an approve link whose seat,
\* date and slot already has an approved reservation, the pending one becomes 'rejected'
\* and the approved one is unchanged; the other reservations of the link are still
\* decided one by one: the first of the link for a seat without an approved reservation
\* is approved.
C23_PartialApproval ==
  (last.op = "admin_action" /\ last.args.action = "approve" /\ last.res # "bad_link") =>
    \A i \in decided(last.pre, last.args.ids, now) :
      /\ approved_for(last.pre, last.pre[i]) # {} =>
           /\ db[i].status = "rejected"
           /\ \A j \in approved_for(last.pre, last.pre[i]) : db[j] = last.pre[j]
      /\ (/\ approved_for(last.pre, last.pre[i]) = {}
          /\ \A k \in decided(last.pre, last.args.ids, now) :
               (k < i) => ~same_seat(last.pre[k], last.pre[i]))
           => db[i].status = "approved"

\* a link of two seats: one had been approved for another student and is refused, the
\* other is approved
C23_Witness ==
  /\ last.op = "admin_action" /\ last.args.action = "approve"
  /\ \E i, k \in decided(last.pre, last.args.ids, now) : \E j \in DOMAIN last.pre :
       /\ j \notin last.args.ids
       /\ last.pre[j].status = "approved" /\ same_seat(last.pre[j], last.pre[i])
       /\ last.pre[j].student # last.pre[i].student
       /\ db[i].status = "rejected" /\ db[j] = last.pre[j]
       /\ ~same_seat(last.pre[k], last.pre[i]) /\ db[k].status = "approved"

(* ----------------------- cancelled stays cancelled -------------------- *)
\* C24: a reservation the student has cancelled is never afterwards approved or rejected
\* by admin_action, also when cancel_booking commits between admin_action's read of the
\* pending reservations and its save of the objects it read.
C24_CancelledStaysCancelled ==
  [][\A i \in DOMAIN db :
       db[i].status = "cancelled" => db'[i].status \notin {"approved", "rejected"}]_vars

(* --------------------------- released seats --------------------------- *)
\* reservation r was cancelled, and no reservation of table d for its seat, date and slot
\* is approved
released(d, r) == r.status = "cancelled" /\ approved_for(d, r) = {}

\* C25: a cancelled reservation does not hold its seat. Once the approved reservation
\* of a seat, date and slot has been cancelled, by cancel_booking or by the administrator,
\* and no other is approved, a submit for the seat before the deadline is accepted, and
\* admin_action approves the new reservation when its approve link is opened.
C25_CancelReleasesSeat ==
  /\ (/\ last.op = "submit"
      /\ \E j \in DOMAIN last.pre : \E k \in 1..Len(last.args.seats) :
           /\ released(last.pre, last.pre[j])
           /\ last.pre[j].seat = last.args.seats[k] /\ last.pre[j].date = last.args.date
           /\ last.pre[j].slot = last.args.slot
      /\ today(now) <= last.args.date
      /\ open_request(last.pre, last.args, now)
      /\ role(last.args.student) = "user" =>
           (/\ Len(last.args.seats) = 1
            /\ ~booked(last.pre, last.args.student, last.args.date, last.args.slot)))
     => all_created
  /\ (last.op = "admin_action" /\ last.args.action = "approve" /\ last.res # "bad_link") =>
       \A i \in decided(last.pre, last.args.ids, now) :
         (/\ \E j \in DOMAIN last.pre :
               released(last.pre, last.pre[j]) /\ same_seat(last.pre[j], last.pre[i])
          /\ \A k \in decided(last.pre, last.args.ids, now) :
               (k < i) => ~same_seat(last.pre[k], last.pre[i]))
           => db[i].status = "approved"

\* the administrator had cancelled an approved reservation, leaving the record of it;
\* the seat was requested again and that request has just been approved
C25_Witness ==
  /\ last.op = "admin_action" /\ last.args.action = "approve"
  /\ \E i, j, k \in DOMAIN db :
       /\ db[j].origin = "admin_cancel" /\ db[j].status = "cancelled"
       /\ db[i].origin = "submit" /\ db[i].status = "cancelled"
       /\ same_seat(db[i], db[j]) /\ same_seat(db[i], db[k])
       /\ i < j /\ j < k
       /\ last.pre[k].status = "pending" /\ db[k].status = "approved"

(* ----------------------- cancel_booking's frame ----------------------- *)
\* C26: cancel_booking changes only reservations of the given batch that belong to the
\* logged-in student; every other reservation stays as it was, and none is created or
\* deleted, whatever batch id is given.
C26_CancelBookingFrame ==
  last.op = "cancel_booking" =>
    /\ DOMAIN db = DOMAIN last.pre
    /\ \A i \in DOMAIN last.pre :
         (last.pre[i].batch # last.args.batch \/ last.pre[i].student # last.args.student)
           => db[i] = last.pre[i]

\* a student cancelled one batch while holding another that could have been cancelled
C26_Witness ==
  /\ last.op = "cancel_booking" /\ last.res = "ok"
  /\ \E i, j \in DOMAIN db :
       /\ db[i] # last.pre[i]
       /\ db[j].student = db[i].student /\ db[j].batch # db[i].batch
       /\ db[j].status \in {"pending", "approved"}

(* ------------------------ the administrator books ---------------------- *)
\* the rows of table d for seat, date and slot of the one classroom
rows_of_seat(d, seat, date, slot) ==
  {i \in DOMAIN d : /\ d[i].classroom = Classroom /\ d[i].seat = seat
                    /\ d[i].date = date /\ d[i].slot = slot}

\* the POST passes the checks made before any seat is looked at
booking_admitted(a, t) ==
  /\ t < slot_start(a.date, a.slot) - RESERVATION_BOOKING_WINDOW_MINUTES
  /\ student_status(a.student) # "blacklist"

\* C27: for each seat of an admin_booking_view POST that is admitted: a seat with an
\* approved reservation is skipped, nothing changes for it and nothing is created; for any
\* other seat every pending reservation is set to 'rejected', everything else stays, and
\* exactly one reservation is created, approved, is_admin_action set, for the target
\* student. A skipped seat does not keep the other seats from being booked.
C27_AdminBookingPerSeat ==
  (last.op = "admin_booking_view" /\ booking_admitted(last.args, now)) =>
    LET a == last.args IN
    \A k \in 1..Len(a.seats) :
      LET before == rows_of_seat(last.pre, a.seats[k], a.date, a.slot)
          after == rows_of_seat(db, a.seats[k], a.date, a.slot)
      IN IF \E i \in before : last.pre[i].status = "approved"
         THEN after = before /\ \A i \in before : db[i] = last.pre[i]
         ELSE /\ \A i \in before :
                   db[i] = IF last.pre[i].status = "pending"
                           THEN [last.pre[i] EXCEPT !.status = "rejected"] ELSE last.pre[i]
              /\ Cardinality(after \ before) = 1
              /\ \A i \in after \ before :
                   db[i].status = "approved" /\ db[i].admin /\ db[i].student = a.student

\* two seats posted: the first had an approved reservation and was skipped, the second
\* had a pending request, which was rejected, and was booked
C27_Witness ==
  /\ last.op = "admin_booking_view" /\ Len(last.args.seats) = 2
  /\ \E i, j \in DOMAIN last.pre :
       /\ last.pre[i].seat = last.args.seats[1] /\ last.pre[i].status = "approved"
       /\ last.pre[j].seat = last.args.seats[2] /\ last.pre[j].status = "pending"
       /\ db[i] = last.pre[i] /\ db[j].status = "rejected"
  /\ \E n \in created_rows : db[n].seat = last.args.seats[2] /\ db[n].status = "approved"

\* C28: an admin_booking_view POST creates no reservation and rejects no pending one when
\* the clock has reached the slot's start minus RESERVATION_BOOKING_WINDOW_MINUTES, or
\* when the target student is on the blacklist.
C28_AdminBookingRefused ==
  (last.op = "admin_booking_view" /\ ~booking_admitted(last.args, now)) => db = last.pre

\* a POST for a blacklisted student, before the deadline, for a free seat that another
\* student had a pending request for
C28_Witness ==
  /\ last.op = "admin_booking_view" /\ student_status(last.args.student) = "blacklist"
  /\ now < slot_start(last.args.date, last.args.slot) - RESERVATION_BOOKING_WINDOW_MINUTES
  /\ \E i \in DOMAIN last.pre :
       /\ last.pre[i].seat = last.args.seats[1] /\ last.pre[i].date = last.args.date
       /\ last.pre[i].slot = last.args.slot /\ last.pre[i].status = "pending"
  /\ \A k \in 1..Len(last.args.seats) : ~locked_seat(last.pre, last.args, k)
  /\ db = last.pre

(* ----------------------- the administrator cancels --------------------- *)
\* the last request was a cancellation by the administrator, from the cancel page or by
\* the admin action
admin_cancelled == last.op \in {"admin_cancel_view", "cancel_reservations"}

\* the reservations of the table found that were selected and pending
selected_pending == {i \in last.args.ids \cap DOMAIN last.pre : last.pre[i].status = "pending"}

\* C29: when the administrator cancels a pending reservation, every reservation that was
\* pending for its classroom, seat, date and slot is set to 'cancelled', the requests of
\* other students that were not selected included, whether or not the slot's deadline is
\* reached; the approved reservations that were not selected are unchanged.
C29_AdminCancelsCompetitors ==
  admin_cancelled =>
    /\ \A i \in selected_pending : \A j \in DOMAIN last.pre :
         (last.pre[j].status = "pending" /\ same_seat(last.pre[j], last.pre[i]))
           => db[j] = [last.pre[j] EXCEPT !.status = "cancelled"]
    /\ \A j \in DOMAIN last.pre \ last.args.ids :
         last.pre[j].status = "approved" => db[j] = last.pre[j]

\* past the deadline, one pending request was selected and another student's request for
\* the same seat, not selected, was cancelled with it, beside an approved reservation
C29_Witness ==
  /\ admin_cancelled
  /\ \E i \in selected_pending : \E j, k \in DOMAIN last.pre \ last.args.ids :
       /\ now >= slot_start(last.pre[i].date, last.pre[i].slot) - RESERVATION_BOOKING_WINDOW_MINUTES
       /\ last.pre[j].status = "pending" /\ same_seat(last.pre[j], last.pre[i])
       /\ last.pre[j].student # last.pre[i].student
       /\ db[i].status = "cancelled" /\ db[j].status = "cancelled"
       /\ last.pre[k].status = "approved" /\ db[k] = last.pre[k]

\* C30: a cancellation by the administrator never sets an approved reservation to
\* 'cancelled' once the clock has reached that reservation's own slot start minus
\* RESERVATION_BOOKING_WINDOW_MINUTES, whatever date and slot the cancel page shows.
C30_AdminCancelRespectsDeadline ==
  admin_cancelled =>
    \A i \in DOMAIN last.pre :
      (/\ last.pre[i].status = "approved"
       /\ now >= slot_start(last.pre[i].date, last.pre[i].slot) - RESERVATION_BOOKING_WINDOW_MINUTES)
        => db[i].status # "cancelled"

(* ------------------------ the change form's save ---------------------- *)
\* the position the form names lies outside the layout or on an aisle
no_seat(f) ==
  \/ f.row_input > Len(layout)
  \/ f.col_input > Len(layout[f.row_input])
  \/ layout[f.row_input][f.col_input] = "0"

\* the reservations of table d, other than id, for the seat, date and slot the form names
form_rivals(d, id, f, st) ==
  {i \in DOMAIN d \ {id} : /\ d[i].classroom = Classroom
                            /\ d[i].seat = <<f.row_input - 1, f.col_input - 1>>
                            /\ d[i].date = f.date /\ d[i].slot = f.time_slot
                            /\ d[i].status = st}

\* C31: ReservationAdminForm changes no reservation and answers with a validation error
\* when the position lies outside the layout, is an aisle, or another reservation for the
\* seat, date and slot is approved; when the reservation is saved, every other pending
\* reservation for the seat, date and slot is 'rejected' and the saved reservation has
\* is_admin_action set.
C31_FormRefusesOrPreempts ==
  last.op = "ReservationAdminForm" =>
    LET id == last.args.id
        f == last.args.form
    IN /\ (no_seat(f) \/ form_rivals(last.pre, id, f, "approved") # {})
            => (db = last.pre /\ last.res # "ok")
       /\ last.res = "ok" =>
            /\ db[id].admin
            /\ \A i \in form_rivals(last.pre, id, f, "pending") : db[i].status = "rejected"
====
